---- MODULE Spec2Model ----
(***************************************************************************)
(* Geometric remapping (RemapperNode) and assembly export (ExportPSDNode)  *)
(* of the PSD procedural logic engine.                                     *)
(*                                                                         *)
(* Numbers are JavaScript numbers.  They are modelled as exact rationals   *)
(* extended with the three non-finite values a division by zero creates    *)
(* (+Infinity, -Infinity, NaN); rounding is not modelled.                  *)
(***************************************************************************)
EXTENDS Integers, Sequences, FiniteSets, TLC

(***************************************************************************)
(* Bounds of the model.                                                    *)
(***************************************************************************)
\* depth of the layer trees fed to the remapper
MaxDepth == 3
\* number of edges in the graph
MaxEdges == 3
\* number of exports started
MaxExports == 2

(***************************************************************************)
(* JavaScript numbers.                                                     *)
(***************************************************************************)
RECURSIVE GCD(_, _)
GCD(a, b) == IF b = 0 THEN a ELSE GCD(b, a % b)

Abs(i) == IF i < 0 THEN -i ELSE i

NaN == [k |-> "nan", n |-> 0, d |-> 1]
PInf == [k |-> "pinf", n |-> 0, d |-> 1]
NInf == [k |-> "ninf", n |-> 0, d |-> 1]

\* the finite number n/d (d # 0), in lowest terms with a positive denominator
Num(n, d) ==
    LET s == IF d < 0 THEN -1 ELSE 1
        g == GCD(Abs(n), Abs(d))
    IN [k |-> "fin", n |-> (s * n) \div g, d |-> (s * d) \div g]

Int2Num(i) == [k |-> "fin", n |-> i, d |-> 1]

IsFinite(a) == a.k = "fin"
IsNaN(a) == a.k = "nan"

\* -1, 0, 1 for a number that is not NaN
Sign(a) ==
    CASE a.k = "pinf" -> 1
      [] a.k = "ninf" -> -1
      [] OTHER -> IF a.n > 0 THEN 1 ELSE IF a.n < 0 THEN -1 ELSE 0

Neg(a) ==
    CASE a.k = "nan" -> NaN
      [] a.k = "pinf" -> NInf
      [] a.k = "ninf" -> PInf
      [] OTHER -> [k |-> "fin", n |-> -a.n, d |-> a.d]

\* a + b
Add(a, b) ==
    CASE IsNaN(a) \/ IsNaN(b) -> NaN
      [] IsFinite(a) /\ IsFinite(b) -> Num(a.n * b.d + b.n * a.d, a.d * b.d)
      [] IsFinite(a) -> b
      [] IsFinite(b) -> a
      [] OTHER -> IF a.k = b.k THEN a ELSE NaN

\* a - b
Sub(a, b) == Add(a, Neg(b))

\* a * b
Mul(a, b) ==
    CASE IsNaN(a) \/ IsNaN(b) -> NaN
      [] IsFinite(a) /\ IsFinite(b) -> Num(a.n * b.n, a.d * b.d)
      [] OTHER -> LET s == Sign(a) * Sign(b)
                  IN IF s = 0 THEN NaN ELSE IF s > 0 THEN PInf ELSE NInf

\* a / b: a division by zero gives an infinity, or NaN for 0/0
Div(a, b) ==
    CASE IsNaN(a) \/ IsNaN(b) -> NaN
      [] IsFinite(a) /\ IsFinite(b) ->
            IF b.n # 0 THEN Num(a.n * b.d, a.d * b.n)
            ELSE IF a.n = 0 THEN NaN
            ELSE IF a.n > 0 THEN PInf ELSE NInf
      [] IsFinite(a) -> Int2Num(0)
      [] IsFinite(b) -> IF Sign(a) * (IF b.n < 0 THEN -1 ELSE 1) > 0 THEN PInf ELSE NInf
      [] OTHER -> NaN

\* a < b and a <= b; false when either is NaN
Lt(a, b) ==
    /\ ~IsNaN(a)
    /\ ~IsNaN(b)
    /\ CASE IsFinite(a) /\ IsFinite(b) -> a.n * b.d < b.n * a.d
         [] a.k = "ninf" -> b.k # "ninf"
         [] a.k = "pinf" -> FALSE
         [] OTHER -> b.k = "pinf"

Le(a, b) == ~IsNaN(a) /\ ~IsNaN(b) /\ ~Lt(b, a)

\* a === b; false when either is NaN
StrictEq(a, b) == ~IsNaN(a) /\ ~IsNaN(b) /\ a = b

\* Math.min(a, b), Math.max(a, b): NaN when either is NaN
MathMin(a, b) == IF IsNaN(a) \/ IsNaN(b) THEN NaN ELSE IF Lt(b, a) THEN b ELSE a

MathMax(a, b) == IF IsNaN(a) \/ IsNaN(b) THEN NaN ELSE IF Lt(a, b) THEN b ELSE a

Two == Int2Num(2)

MAX_BOUNDARY_VIOLATION_PERCENT == Num(3, 100)

Rect(x, y, w, h) == [x |-> Int2Num(x), y |-> Int2Num(y), w |-> Int2Num(w), h |-> Int2Num(h)]

(***************************************************************************)
(* Layer trees (SerializableLayer).  A layer's id is its path in the       *)
(* document; `hasChildren' tells a layer whose `children' is an array      *)
(* (possibly empty) from one whose `children' is undefined.                *)
(***************************************************************************)
Layer(id, type, coords, hasChildren, children) ==
    [id |-> id, type |-> type, isVisible |-> TRUE, opacity |-> Int2Num(1),
     coords |-> coords, hasChildren |-> hasChildren, children |-> children]

LeafCoords == Rect(10, 40, 20, 30)

\* The tree with a spine of MaxDepth nested layers, the spine layer of level
\* k at height ys[k], each group holding the next spine layer and one leaf.
RECURSIVE SpineLayer(_, _, _)
SpineLayer(path, level, ys) ==
    LET coords == Rect(10 * (level - 1), ys[level], 100, 200)
    IN IF level < MaxDepth
       THEN Layer(path, "group", coords, TRUE,
                  <<SpineLayer(Append(path, 0), level + 1, ys),
                    Layer(Append(path, 1), "layer", LeafCoords, FALSE, <<>>)>>)
       ELSE Layer(path, "layer", coords, FALSE, <<>>)

(***************************************************************************)
(* LayoutStrategy and LayerOverride.  `present' is false for an absent     *)
(* strategy, `hasOverrides' for an absent overrides list.                  *)
(***************************************************************************)
Override(layerId, xOffset, yOffset, individualScale) ==
    [layerId |-> layerId, xOffset |-> xOffset, yOffset |-> yOffset,
     individualScale |-> individualScale]

NoStrategy ==
    [present |-> FALSE, suggestedScale |-> Int2Num(0), anchor |-> "CENTER",
     hasOverrides |-> FALSE, overrides |-> <<>>]

Strategy(suggestedScale, anchor, hasOverrides, overrides) ==
    [present |-> TRUE, suggestedScale |-> suggestedScale, anchor |-> anchor,
     hasOverrides |-> hasOverrides, overrides |-> overrides]

(***************************************************************************)
(* RemapperNode: scale and anchor of one instance.                         *)
(***************************************************************************)
\* anchor that centres the scaled source extent in the target extent
CenterAnchor(targetPos, targetSize, scaledSize) ==
    Add(targetPos, Div(Sub(targetSize, scaledSize), Two))

\* StrategyAnchorY with BOTTOM placed at the target's bottom edge, the scaled
\* height forgotten
StrategyAnchorYUnscaledBottom(anchor, targetRect, scaledH) ==
    IF anchor = "TOP" THEN targetRect.y
    ELSE IF anchor = "BOTTOM" THEN Add(targetRect.y, targetRect.h)
    ELSE CenterAnchor(targetRect.y, targetRect.h, scaledH)

\* vertical anchor chosen by strategy.anchor
StrategyAnchorY(anchor, targetRect, scaledH) ==
    IF anchor = "TOP" THEN targetRect.y
    ELSE IF anchor = "BOTTOM" THEN Add(targetRect.y, Sub(targetRect.h, scaledH))
    ELSE CenterAnchor(targetRect.y, targetRect.h, scaledH)

\* DefaultScale taking the larger ratio (fill instead of fit)
DefaultScaleFill(sourceRect, targetRect) ==
    LET ratioX == Div(targetRect.w, sourceRect.w)
        ratioY == Div(targetRect.h, sourceRect.h)
    IN MathMax(ratioX, ratioY)

\* the default scale: the smaller of the two axis ratios
DefaultScale(sourceRect, targetRect) ==
    LET ratioX == Div(targetRect.w, sourceRect.w)
        ratioY == Div(targetRect.h, sourceRect.h)
    IN MathMin(ratioX, ratioY)

ResolveTransform(sourceRect, targetRect, strategy) ==
    LET scale == IF strategy.present THEN strategy.suggestedScale
                 ELSE DefaultScale(sourceRect, targetRect)
        scaledW == Mul(sourceRect.w, scale)
        scaledH == Mul(sourceRect.h, scale)
    IN [scale |-> scale,
        anchorX |-> CenterAnchor(targetRect.x, targetRect.w, scaledW),
        anchorY |-> IF strategy.present
                    THEN StrategyAnchorY(strategy.anchor, targetRect, scaledH)
                    ELSE CenterAnchor(targetRect.y, targetRect.h, scaledH),
        strategyUsed |-> strategy.present]

(***************************************************************************)
(* RemapperNode: the recursive transformation of the layer tree.  `ctx'    *)
(* holds what transformLayers closes over: sourceRect, targetRect, scale,  *)
(* anchorX, anchorY and strategy.                                          *)
(***************************************************************************)
Context(sourceRect, targetRect, xform, strategy) ==
    [sourceRect |-> sourceRect, targetRect |-> targetRect, scale |-> xform.scale,
     anchorX |-> xform.anchorX, anchorY |-> xform.anchorY, strategy |-> strategy]

\* the geometric baseline of a position on one axis
Geom(anchor, pos, sourcePos, sourceSize, scale) ==
    LET rel == Div(Sub(pos, sourcePos), sourceSize)
    IN Add(anchor, Mul(rel, Mul(sourceSize, scale)))

GeomX(layer, ctx) ==
    Geom(ctx.anchorX, layer.coords.x, ctx.sourceRect.x, ctx.sourceRect.w, ctx.scale)

GeomY(layer, ctx) ==
    Geom(ctx.anchorY, layer.coords.y, ctx.sourceRect.y, ctx.sourceRect.h, ctx.scale)

\* FindOverride letting the last matching entry win
FindOverrideLast(strategy, id) ==
    LET ov == strategy.overrides
        hits == {i \in 1..Len(ov) : ov[i].layerId = id}
    IN IF ~strategy.present \/ ~strategy.hasOverrides \/ hits = {} THEN <<>>
       ELSE <<ov[CHOOSE i \in hits : \A j \in hits : j <= i]>>

\* strategy?.overrides?.find(o => o.layerId === layer.id): <<>> or <<o>>
FindOverride(strategy, id) ==
    LET ov == strategy.overrides
        hits == {i \in 1..Len(ov) : ov[i].layerId = id}
    IN IF ~strategy.present \/ ~strategy.hasOverrides \/ hits = {} THEN <<>>
       ELSE <<ov[CHOOSE i \in hits : \A j \in hits : i <= j]>>

\* Math.max(minY, Math.min(finalY, maxY)) with the bleed allowance
ClampY(finalY, targetRect) ==
    LET bleedY == Mul(targetRect.h, MAX_BOUNDARY_VIOLATION_PERCENT)
        minY == Sub(targetRect.y, bleedY)
        maxY == Add(Add(targetRect.y, targetRect.h), bleedY)
    IN MathMax(minY, MathMin(finalY, maxY))

\* ChildDelta handing the children the inherited delta even below an override
ChildDeltaInherited(layer, ctx, parentDeltaX, parentDeltaY) ==
    [x |-> parentDeltaX, y |-> parentDeltaY]

\* the delta handed to the children of `layer'
ChildDelta(layer, ctx, parentDeltaX, parentDeltaY) ==
    LET override == FindOverride(ctx.strategy, layer.id)
    IN IF override = <<>> THEN [x |-> parentDeltaX, y |-> parentDeltaY]
       ELSE [x |-> Sub(Add(ctx.targetRect.x, override[1].xOffset), GeomX(layer, ctx)),
             y |-> Sub(Add(ctx.targetRect.y, override[1].yOffset), GeomY(layer, ctx))]

\* PlaceLayer taking the override's offsets relative to the layer's geometric
\* position instead of the target's origin
PlaceLayerOffsetFromGeom(layer, ctx, parentDeltaX, parentDeltaY) ==
    LET override == FindOverride(ctx.strategy, layer.id)
        finalX == IF override = <<>> THEN Add(GeomX(layer, ctx), parentDeltaX)
                  ELSE Add(GeomX(layer, ctx), override[1].xOffset)
        aimY == IF override = <<>> THEN Add(GeomY(layer, ctx), parentDeltaY)
                ELSE Add(GeomY(layer, ctx), override[1].yOffset)
        finalY == ClampY(aimY, ctx.targetRect)
        layerScale == IF override = <<>> THEN ctx.scale
                      ELSE Mul(ctx.scale, override[1].individualScale)
    IN [id |-> layer.id, type |-> layer.type, isVisible |-> layer.isVisible,
        opacity |-> layer.opacity,
        coords |-> [x |-> finalX, y |-> finalY,
                    w |-> Mul(layer.coords.w, layerScale),
                    h |-> Mul(layer.coords.h, layerScale)],
        transform |-> [scaleX |-> layerScale, scaleY |-> layerScale,
                       offsetX |-> finalX, offsetY |-> finalY],
        hasChildren |-> layer.hasChildren]

\* PlaceLayer recording the vertical offset it aimed at, before the clamp
PlaceLayerOffsetBeforeClamp(layer, ctx, parentDeltaX, parentDeltaY) ==
    LET override == FindOverride(ctx.strategy, layer.id)
        finalX == IF override = <<>> THEN Add(GeomX(layer, ctx), parentDeltaX)
                  ELSE Add(ctx.targetRect.x, override[1].xOffset)
        aimY == IF override = <<>> THEN Add(GeomY(layer, ctx), parentDeltaY)
                ELSE Add(ctx.targetRect.y, override[1].yOffset)
        finalY == ClampY(aimY, ctx.targetRect)
        layerScale == IF override = <<>> THEN ctx.scale
                      ELSE Mul(ctx.scale, override[1].individualScale)
    IN [id |-> layer.id, type |-> layer.type, isVisible |-> layer.isVisible,
        opacity |-> layer.opacity,
        coords |-> [x |-> finalX, y |-> finalY,
                    w |-> Mul(layer.coords.w, layerScale),
                    h |-> Mul(layer.coords.h, layerScale)],
        transform |-> [scaleX |-> layerScale, scaleY |-> layerScale,
                       offsetX |-> finalX, offsetY |-> aimY],
        hasChildren |-> layer.hasChildren]

\* the layer itself, without its children
PlaceLayer(layer, ctx, parentDeltaX, parentDeltaY) ==
    LET override == FindOverride(ctx.strategy, layer.id)
        finalX == IF override = <<>> THEN Add(GeomX(layer, ctx), parentDeltaX)
                  ELSE Add(ctx.targetRect.x, override[1].xOffset)
        aimY == IF override = <<>> THEN Add(GeomY(layer, ctx), parentDeltaY)
                ELSE Add(ctx.targetRect.y, override[1].yOffset)
        finalY == ClampY(aimY, ctx.targetRect)
        layerScale == IF override = <<>> THEN ctx.scale
                      ELSE Mul(ctx.scale, override[1].individualScale)
    IN [id |-> layer.id, type |-> layer.type, isVisible |-> layer.isVisible,
        opacity |-> layer.opacity,
        coords |-> [x |-> finalX, y |-> finalY,
                    w |-> Mul(layer.coords.w, layerScale),
                    h |-> Mul(layer.coords.h, layerScale)],
        transform |-> [scaleX |-> layerScale, scaleY |-> layerScale,
                       offsetX |-> finalX, offsetY |-> finalY],
        hasChildren |-> layer.hasChildren]

RECURSIVE TransformLayers(_, _, _, _)
\* TransformLayers collecting the transformed layers in reverse order
TransformLayersReversed(layers, ctx, parentDeltaX, parentDeltaY) ==
    [i \in 1..Len(layers) |->
        LET layer == layers[Len(layers) + 1 - i]
            delta == ChildDelta(layer, ctx, parentDeltaX, parentDeltaY)
            placed == PlaceLayer(layer, ctx, parentDeltaX, parentDeltaY)
        IN [id |-> placed.id, type |-> placed.type, isVisible |-> placed.isVisible,
            opacity |-> placed.opacity, coords |-> placed.coords,
            transform |-> placed.transform, hasChildren |-> placed.hasChildren,
            children |-> IF layer.hasChildren
                         THEN TransformLayers(layer.children, ctx, delta.x, delta.y)
                         ELSE <<>>]]

TransformLayers(layers, ctx, parentDeltaX, parentDeltaY) ==
    [i \in 1..Len(layers) |->
        LET layer == layers[i]
            delta == ChildDelta(layer, ctx, parentDeltaX, parentDeltaY)
            placed == PlaceLayer(layer, ctx, parentDeltaX, parentDeltaY)
        IN [id |-> placed.id, type |-> placed.type, isVisible |-> placed.isVisible,
            opacity |-> placed.opacity, coords |-> placed.coords,
            transform |-> placed.transform, hasChildren |-> placed.hasChildren,
            children |-> IF layer.hasChildren
                         THEN TransformLayers(layer.children, ctx, delta.x, delta.y)
                         ELSE <<>>]]

(***************************************************************************)
(* RemapperNode: the payload of one instance.                              *)
(***************************************************************************)
NoPayload ==
    [present |-> FALSE, sourceNodeId |-> "", sourceContainer |-> <<>>,
     targetContainer |-> <<>>, layers |-> <<>>, scaleFactor |-> Int2Num(0)]

SourceData(name, nodeId, layers, originalBounds, aiStrategy) ==
    [ready |-> TRUE, name |-> name, nodeId |-> nodeId, layers |-> layers,
     originalBounds |-> originalBounds, aiStrategy |-> aiStrategy]

SourceNotReady ==
    [ready |-> FALSE, name |-> <<>>, nodeId |-> "", layers |-> <<>>,
     originalBounds |-> Rect(0, 0, 0, 0), aiStrategy |-> NoStrategy]

TargetData(name, bounds) == [ready |-> TRUE, name |-> name, bounds |-> bounds]

TargetNotReady == [ready |-> FALSE, name |-> <<>>, bounds |-> Rect(0, 0, 0, 0)]

BuildPayload(sourceData, targetData, xform) ==
    LET ctx == Context(sourceData.originalBounds, targetData.bounds, xform,
                       sourceData.aiStrategy)
    IN [present |-> TRUE,
        sourceNodeId |-> sourceData.nodeId,
        sourceContainer |-> sourceData.name,
        targetContainer |-> targetData.name,
        layers |-> TransformLayers(sourceData.layers, ctx, Int2Num(0), Int2Num(0)),
        scaleFactor |-> xform.scale]

ComputePayload(sourceData, targetData) ==
    IF sourceData.ready /\ targetData.ready
    THEN BuildPayload(sourceData, targetData,
                      ResolveTransform(sourceData.originalBounds, targetData.bounds,
                                       sourceData.aiStrategy))
    ELSE NoPayload

(***************************************************************************)
(* Strings that the code takes apart (handle ids, container names) are     *)
(* sequences of tokens: "input-A" is <<"input-", "A">>, "target-out-1" is  *)
(* <<"target-out-", "1">>.  The empty sequence is the empty string, and    *)
(* also a null or undefined handle (both falsy).  Node ids are plain       *)
(* strings.                                                                *)
(***************************************************************************)
StartsWith(str, prefix) == Len(str) >= 1 /\ str[1] = prefix

\* str.replace(prefix, '') of a string that starts with prefix
DropPrefix(str) == Tail(str)

Digits == {"0", "1", "2", "3"}

\* parseInt of one digit
ParseInt(digit) ==
    CASE digit = "0" -> 0 [] digit = "1" -> 1 [] digit = "2" -> 2 [] OTHER -> 3

\* the digit of an index, as in `source-in-${i}`
DigitOf(i) == CASE i = 0 -> "0" [] i = 1 -> "1" [] i = 2 -> "2" [] OTHER -> "3"

ExportId == "export"

RemapId == "remap"

Edge(source, sourceHandle, target, targetHandle) ==
    [source |-> source, sourceHandle |-> sourceHandle, target |-> target,
     targetHandle |-> targetHandle]

\* edges.find(e => e.target === id && e.targetHandle === handle): <<>> or <<e>>
FindEdge(edgeList, id, handle) ==
    LET hits == {i \in 1..Len(edgeList) :
                    edgeList[i].target = id /\ edgeList[i].targetHandle = handle}
    IN IF hits = {} THEN <<>>
       ELSE <<edgeList[CHOOSE i \in hits : \A j \in hits : i <= j]>>

(***************************************************************************)
(* The store: templateRegistry, resolvedRegistry, psdRegistry.  Their      *)
(* contents are fixed; a lookup gives <<>> for undefined, <<v>> otherwise. *)
(***************************************************************************)
Container(id, name, originalName, bounds) ==
    [id |-> id, name |-> name, originalName |-> originalName, bounds |-> bounds]

Template(width, height, containers) ==
    [canvas |-> [width |-> width, height |-> height], containers |-> containers]

SlotA == Container("c-a", <<"A">>, <<"A">>, Rect(10, 10, 50, 50))
SlotB == Container("c-b", <<"B">>, <<"B">>, Rect(100, 10, 20, 50))
\* a slot whose handle name is not its original (human) name
SlotBee == Container("c-bee", <<"B">>, <<"Bee">>, Rect(10, 100, 50, 50))

templateRegistry(nodeId) ==
    CASE nodeId = "tplA" -> <<Template(300, 300, <<SlotA, SlotB>>)>>
      [] nodeId = "tplB" -> <<Template(200, 200, <<SlotBee>>)>>
      [] nodeId = "tplE" -> <<Template(100, 100, <<>>)>>
      [] OTHER -> <<>>

\* the layer tree the resolver extracted from the document of node psd1
ResolvedLayers == <<SpineLayer(<<0>>, 1, [k \in 1..MaxDepth |-> 0])>>

MappingContext(containerName, bounds, layers, aiStrategy) ==
    [container |-> [containerName |-> containerName, bounds |-> bounds],
     layers |-> layers, aiStrategy |-> aiStrategy]

\* node res resolves the layers of psd1's document; node psd1 also publishes
\* them itself
resolvedRegistry(nodeId, handle) ==
    IF nodeId \in {"res", "psd1"} /\ handle = <<"h0">>
    THEN <<MappingContext(<<"SRC">>, Rect(0, 0, 100, 200), ResolvedLayers, NoStrategy)>>
    ELSE <<>>

\* the node whose document the layers of a resolved context were extracted from
extractedFrom(nodeId, handle) == "psd1"

\* the ids of all layers of a forest
RECURSIVE LayerIds(_)
LayerIds(layers) ==
    UNION {{layers[i].id} \cup LayerIds(layers[i].children) : i \in 1..Len(layers)}

\* a layer of a loaded document, with the properties reconstruction keeps
OriginalLayer(id) == [name |-> id, blendMode |-> "normal", opened |-> FALSE]

\* the documents: psd1 holds every layer of ResolvedLayers, psd2 is another
\* file, with top-level layers only
psdRegistry(nodeId) ==
    CASE nodeId = "psd1" -> <<LayerIds(ResolvedLayers)>>
      [] nodeId = "psd2" -> <<{id \in LayerIds(ResolvedLayers) : Len(id) = 1} \cup {<<1>>}>>
      [] OTHER -> <<>>

\* findLayerByPath(psd, id): <<>> when the document has no such layer
findLayerByPath(sourcePsd, id) ==
    IF id \in sourcePsd THEN <<OriginalLayer(id)>> ELSE <<>>

(***************************************************************************)
(* RemapperNode: source and target of one instance, from its edges.        *)
(***************************************************************************)
\* nodes.find(n => n.type === 'loadPsd'): <<>> or <<node>>
FindLoadPsdNode(nodeList) ==
    LET hits == {i \in 1..Len(nodeList) : nodeList[i].type = "loadPsd"}
    IN IF hits = {} THEN <<>>
       ELSE <<nodeList[CHOOSE i \in hits : \A j \in hits : i <= j]>>

ResolveSource(sourceEdge, nodeList) ==
    IF sourceEdge = <<>> \/ sourceEdge[1].sourceHandle = <<>> THEN SourceNotReady
    ELSE LET context == resolvedRegistry(sourceEdge[1].source, sourceEdge[1].sourceHandle)
             loadPsdNode == FindLoadPsdNode(nodeList)
         IN IF context = <<>> THEN SourceNotReady
            ELSE SourceData(context[1].container.containerName,
                            IF loadPsdNode # <<>> THEN loadPsdNode[1].id
                            ELSE sourceEdge[1].source,
                            context[1].layers, context[1].container.bounds,
                            context[1].aiStrategy)

\* template.containers.find(c => c.name === name): <<>> or <<c>>
FindContainer(containers, name) ==
    LET hits == {i \in 1..Len(containers) : containers[i].name = name}
    IN IF hits = {} THEN <<>>
       ELSE <<containers[CHOOSE i \in hits : \A j \in hits : i <= j]>>

\* the container a target handle names: exact name, 'slot-bounds-' prefix,
\* 'target-out-<index>', single-container fallback
MatchContainer(template, handle) ==
    LET cs == template.containers
        exact == FindContainer(cs, handle)
        prefixed == IF exact = <<>> /\ StartsWith(handle, "slot-bounds-")
                    THEN FindContainer(cs, DropPrefix(handle))
                    ELSE exact
        indexed == IF prefixed = <<>> /\ Len(handle) = 2
                      /\ handle[1] = "target-out-" /\ handle[2] \in Digits
                      /\ ParseInt(handle[2]) + 1 <= Len(cs)
                   THEN <<cs[ParseInt(handle[2]) + 1]>>
                   ELSE prefixed
    IN IF indexed = <<>> /\ Len(cs) = 1 THEN <<cs[1]>> ELSE indexed

ResolveTarget(targetEdge) ==
    IF targetEdge = <<>> \/ targetEdge[1].sourceHandle = <<>> THEN TargetNotReady
    ELSE LET template == templateRegistry(targetEdge[1].source)
         IN IF template = <<>> THEN TargetNotReady
            ELSE LET c == MatchContainer(template[1], targetEdge[1].sourceHandle)
                 IN IF c = <<>> THEN TargetNotReady
                    ELSE TargetData(IF c[1].originalName # <<>> THEN c[1].originalName
                                    ELSE c[1].name,
                                    c[1].bounds)

\* the instance with index i: its payload, from the edges into its handles
InstancePayload(i, edgeList, nodeList) ==
    ComputePayload(
        ResolveSource(FindEdge(edgeList, RemapId, <<"source-in-", DigitOf(i)>>), nodeList),
        ResolveTarget(FindEdge(edgeList, RemapId, <<"target-in-", DigitOf(i)>>)))

(***************************************************************************)
(* ExportPSDNode: template, slot connections, validation, status.          *)
(***************************************************************************)
\* the template of the first edge into 'template-input': <<>> or <<t>>
TemplateMetadata(edgeList) ==
    LET edge == FindEdge(edgeList, ExportId, <<"template-input">>)
    IN IF edge = <<>> THEN <<>> ELSE templateRegistry(edge[1].source)

Containers(edgeList) ==
    IF TemplateMetadata(edgeList) = <<>> THEN <<>>
    ELSE TemplateMetadata(edgeList)[1].containers

\* payloadRegistry[edge.source][edge.sourceHandle || '']; registry is the
\* entry of the remapper node, the only node that registers payloads
LookupPayload(registry, edge) ==
    IF edge.source = RemapId /\ edge.sourceHandle \in DOMAIN registry
    THEN registry[edge.sourceHandle]
    ELSE NoPayload

ViolationMessage(semanticTarget, slotName) ==
    [semanticTarget |-> semanticTarget, slotName |-> slotName]

\* a validator that reports a mismatch and still keeps the wiring
ValidateEdgeKeepsMismatch(acc, edge, registry) ==
    IF edge.target # ExportId \/ ~StartsWith(edge.targetHandle, "input-") THEN acc
    ELSE LET slotName == DropPrefix(edge.targetHandle)
             payload == LookupPayload(registry, edge)
         IN IF ~payload.present THEN acc
            ELSE [map |-> (slotName :> payload) @@ acc.map,
                  errors |-> IF payload.targetContainer = slotName THEN acc.errors
                             ELSE Append(acc.errors,
                                         ViolationMessage(payload.targetContainer,
                                                          slotName))]

\* one turn of edges.forEach: acc is [map, errors]
ValidateEdge(acc, edge, registry) ==
    IF edge.target # ExportId \/ ~StartsWith(edge.targetHandle, "input-") THEN acc
    ELSE LET slotName == DropPrefix(edge.targetHandle)
             payload == LookupPayload(registry, edge)
         IN IF ~payload.present THEN acc
            ELSE IF payload.targetContainer = slotName
            THEN [acc EXCEPT !.map = (slotName :> payload) @@ acc.map]
            ELSE [acc EXCEPT !.errors =
                     Append(acc.errors,
                            ViolationMessage(payload.targetContainer, slotName))]

\* slotConnections and validationErrors after the first n edges
RECURSIVE ValidateUpTo(_, _, _)
ValidateUpTo(edgeList, n, registry) ==
    IF n = 0 THEN [map |-> <<>>, errors |-> <<>>]
    ELSE ValidateEdge(ValidateUpTo(edgeList, n - 1, registry), edgeList[n], registry)

Validation(edgeList, registry) == ValidateUpTo(edgeList, Len(edgeList), registry)

SlotConnections(edgeList, registry) == Validation(edgeList, registry).map

ValidationErrors(edgeList, registry) == Validation(edgeList, registry).errors

TotalSlots(edgeList) == Len(Containers(edgeList))

FilledSlots(edgeList, registry) == Cardinality(DOMAIN SlotConnections(edgeList, registry))

IsTemplateReady(edgeList) == TemplateMetadata(edgeList) # <<>>

\* a status that forgets the template may have no slot at all
StatusOfAllowsNoSlots(isTemplateReady, filledSlots, totalSlots, errorCount) ==
    isTemplateReady /\ filledSlots = totalSlots /\ errorCount = 0

\* the status line: enabled only when every slot is filled and nothing is
\* miswired
StatusOf(isTemplateReady, filledSlots, totalSlots, errorCount) ==
    isTemplateReady /\ filledSlots = totalSlots /\ totalSlots > 0 /\ errorCount = 0

IsFullyAssembled(edgeList, registry) ==
    StatusOf(IsTemplateReady(edgeList), FilledSlots(edgeList, registry),
             TotalSlots(edgeList), Len(ValidationErrors(edgeList, registry)))

(***************************************************************************)
(* ExportPSDNode: building the output document.                            *)
(***************************************************************************)
\* the layers rebuilt from the transformed layers and the original document;
\* a transformed layer the document does not hold is left out
RECURSIVE reconstructHierarchy(_, _)
reconstructHierarchy(transformedLayers, sourcePsd) ==
    IF transformedLayers = <<>> THEN <<>>
    ELSE LET metaLayer == Head(transformedLayers)
             originalLayer == findLayerByPath(sourcePsd, metaLayer.id)
             isGroup == metaLayer.type = "group" /\ metaLayer.hasChildren
             rest == reconstructHierarchy(Tail(transformedLayers), sourcePsd)
         IN IF originalLayer = <<>> THEN rest
            ELSE <<[name |-> originalLayer[1].name,
                    blendMode |-> originalLayer[1].blendMode,
                    top |-> metaLayer.coords.y,
                    left |-> metaLayer.coords.x,
                    bottom |-> Add(metaLayer.coords.y, metaLayer.coords.h),
                    right |-> Add(metaLayer.coords.x, metaLayer.coords.w),
                    hidden |-> ~metaLayer.isVisible,
                    opacity |-> Mul(metaLayer.opacity, Int2Num(255)),
                    hasChildren |-> isGroup,
                    children |-> IF isGroup
                                 THEN reconstructHierarchy(metaLayer.children, sourcePsd)
                                 ELSE <<>>,
                    opened |-> IF isGroup THEN TRUE ELSE originalLayer[1].opened]>>
                 \o rest

\* ContainerGroup named by the slot's handle name
ContainerGroupNamedByHandle(container, reconstructedContent) ==
    [name |-> container.name,
     children |-> reconstructedContent,
     opened |-> TRUE,
     top |-> container.bounds.y,
     left |-> container.bounds.x,
     bottom |-> Add(container.bounds.y, container.bounds.h),
     right |-> Add(container.bounds.x, container.bounds.w)]

ContainerGroup(container, reconstructedContent) ==
    [name |-> container.originalName,
     children |-> reconstructedContent,
     opened |-> TRUE,
     top |-> container.bounds.y,
     left |-> container.bounds.x,
     bottom |-> Add(container.bounds.y, container.bounds.h),
     right |-> Add(container.bounds.x, container.bounds.w)]

\* the containers whose payload names a document psdRegistry does not hold
MissingSources(containers, slotConnections) ==
    {i \in 1..Len(containers) :
        /\ containers[i].name \in DOMAIN slotConnections
        /\ psdRegistry(slotConnections[containers[i].name].sourceNodeId) = <<>>}

\* finalChildren: one group per container that has a payload, in template order
RECURSIVE FinalChildren(_, _)
FinalChildren(containers, slotConnections) ==
    IF containers = <<>> THEN <<>>
    ELSE LET container == Head(containers)
             rest == FinalChildren(Tail(containers), slotConnections)
         IN IF container.name \notin DOMAIN slotConnections THEN rest
            ELSE LET payload == slotConnections[container.name]
                     sourcePsd == psdRegistry(payload.sourceNodeId)[1]
                 IN <<ContainerGroup(container,
                                     reconstructHierarchy(payload.layers, sourcePsd))>>
                    \o rest

\* newPsd
BuildPsd(template, slotConnections) ==
    [width |-> template.canvas.width, height |-> template.canvas.height,
     children |-> FinalChildren(template.containers, slotConnections)]

(***************************************************************************)
(* Inputs of one remapper instance.                                        *)
(***************************************************************************)
SpineYs == {0, 400}

LayerTrees ==
    {<<SpineLayer(<<0>>, 1, ys)>> : ys \in [1..MaxDepth -> SpineYs]}
    \cup {<<>>,
          <<Layer(<<0>>, "group", Rect(0, 0, 100, 200), TRUE, <<>>),
            Layer(<<1>>, "layer", LeafCoords, FALSE, <<>>)>>}

SourceRects ==
    {Rect(0, 0, w, h) : w \in {0, 100}, h \in {0, 200}} \cup {Rect(20, 10, 100, 200)}

TargetRects == {Rect(10, 10, 50, 50), Rect(10, 10, 20, 50), Rect(10, 10, 50, 0)}

OvRootA == Override(<<0>>, Int2Num(5), Int2Num(5), Int2Num(2))
OvRootB == Override(<<0>>, Int2Num(-30), Int2Num(100), Num(1, 2))
OvMid == Override(<<0, 0>>, Int2Num(0), Int2Num(30), Int2Num(1))
OvNone == Override(<<9>>, Int2Num(7), Int2Num(7), Int2Num(3))

OverrideLists ==
    {<<>>, <<OvRootA>>, <<OvMid>>, <<OvRootA, OvMid>>, <<OvRootA, OvRootB>>,
     <<OvRootB, OvRootA>>, <<OvNone, OvRootB>>}

Anchors == {"TOP", "CENTER", "BOTTOM", "STRETCH"}

Strategies ==
    {NoStrategy}
    \cup {Strategy(sc, a, TRUE, ov) :
            sc \in {Num(1, 4), Int2Num(2)}, a \in Anchors, ov \in OverrideLists}
    \cup {Strategy(sc, a, FALSE, <<>>) : sc \in {Num(1, 4), Int2Num(2)}, a \in Anchors}

RemapSources ==
    {SourceData(<<"SRC">>, "psd1", layers, rect, st) :
        layers \in LayerTrees, rect \in SourceRects, st \in Strategies}

RemapTargets == {TargetData(<<"A">>, rect) : rect \in TargetRects}

(***************************************************************************)
(* Inputs of the graph editor.                                             *)
(***************************************************************************)
Node(id, type) == [id |-> id, type |-> type]

\* the node lists: one loadPsd node, two of them, none (psd1 is of another type)
NodeLists ==
    {<<Node("psd1", "loadPsd"), Node(RemapId, "remapper"), Node(ExportId, "exportPsd")>>,
     <<Node("psd2", "loadPsd"), Node("psd1", "loadPsd"), Node(RemapId, "remapper"),
       Node(ExportId, "exportPsd")>>,
     <<Node("psd1", "psdSource"), Node(RemapId, "remapper"), Node(ExportId, "exportPsd")>>}

\* data.instanceCount of the remapper node
InstanceCount == 2

ResultOut(i) == <<"result-out-", DigitOf(i)>>

\* the edges a user may draw into the export node (and one into another node)
ExportEdges ==
    {Edge(t, <<"template-out">>, ExportId, <<"template-input">>) :
        t \in {"tplA", "tplB", "tplE", "ghost"}}
    \cup {Edge(RemapId, ResultOut(0), ExportId, <<"input-", "A">>),
          Edge(RemapId, ResultOut(1), ExportId, <<"input-", "A">>),
          Edge(RemapId, ResultOut(1), ExportId, <<"input-", "B">>),
          Edge(RemapId, ResultOut(1), ExportId, <<"input-", "Bee">>),
          Edge(RemapId, <<>>, ExportId, <<"input-", "A">>),
          Edge(RemapId, ResultOut(0), "other", <<"input-", "B">>)}

\* the edges into the source and target handles of remapper instance i
\* (instance 0 takes its source from node psd1, the other from node res)
RemapSourceEdges(i) ==
    {<<>>,
     <<Edge(IF i = 0 THEN "psd1" ELSE "res", <<"h0">>, RemapId,
            <<"source-in-", DigitOf(i)>>)>>,
     <<Edge("res", <<"h9">>, RemapId, <<"source-in-", DigitOf(i)>>)>>}

\* instance 0 is wired to slot A of tplA (by name or by index) or to nothing;
\* the other instance to any slot of tplA or to the only slot of tplB
RemapTargetEdges(i) ==
    {<<>>}
    \cup {<<Edge("tplA", h, RemapId, <<"target-in-", DigitOf(i)>>)>> :
            h \in IF i = 0 THEN {<<"A">>, <<"target-out-", "0">>, <<"none">>}
                  ELSE {<<"A">>, <<"slot-bounds-", "B">>, <<"target-out-", "1">>}}
    \cup {<<Edge("tplB", <<"target-out-", "2">>, RemapId, <<"target-in-", DigitOf(i)>>)>> :
            j \in {i} \ {0}}

\* what instance i computes, over the edges a user may draw into its handles
InstanceOutcomes ==
    [i \in 0..(InstanceCount - 1), nodeList \in NodeLists |->
        {InstancePayload(i, s \o t, nodeList) :
            s \in RemapSourceEdges(i), t \in RemapTargetEdges(i)}]

(***************************************************************************)
(* State.                                                                  *)
(***************************************************************************)
VARIABLES
    rSource,    \* remapper instance: sourceData
    rTarget,    \* remapper instance: targetData
    rStage,     \* remapper instance: "idle", "resolved" or "done"
    rXform,     \* remapper instance: scale, anchorX, anchorY
    rPayload,   \* remapper instance: payload (NoPayload for null)
    nodes,            \* the graph's nodes
    edges,            \* the graph's edges into the export node
    payloadRegistry,  \* the store's payloads of the remapper node, by handle
    isExporting,      \* ExportPSDNode state
    exportError,      \* ExportPSDNode state: <<>> for null, <<message>>
    exportPc,         \* handleExport: "idle", "started" or "writing"
    newPsd,           \* handleExport: <<>> or <<the document being written>>
    written,          \* the files writePsdFile has written
    exportsStarted    \* number of exports started

remapVars == <<rSource, rTarget, rStage, rXform, rPayload>>

exportVars ==
    <<nodes, edges, payloadRegistry, isExporting, exportError, exportPc, newPsd,
      written, exportsStarted>>

vars ==
    <<rSource, rTarget, rStage, rXform, rPayload, nodes, edges, payloadRegistry,
      isExporting, exportError, exportPc, newPsd, written, exportsStarted>>

NoXform ==
    [scale |-> Int2Num(0), anchorX |-> Int2Num(0), anchorY |-> Int2Num(0),
     strategyUsed |-> FALSE]

\* the export node and the store before anything is wired
ExportIdle ==
    /\ edges = <<>>
    /\ payloadRegistry = [h \in {ResultOut(i) : i \in 0..(InstanceCount - 1)} |-> NoPayload]
    /\ isExporting = FALSE
    /\ exportError = <<>>
    /\ exportPc = "idle"
    /\ newPsd = <<>>
    /\ written = <<>>
    /\ exportsStarted = 0

(***************************************************************************)
(* One remapper instance, from its resolved inputs to its payload.         *)
(***************************************************************************)
RemapInit ==
    /\ \/ rSource \in RemapSources /\ rTarget \in RemapTargets
       \/ rSource = SourceNotReady /\ rTarget \in RemapTargets
       \/ rSource \in {s \in RemapSources : s.aiStrategy = NoStrategy}
          /\ rTarget = TargetNotReady
    /\ rStage = "idle"
    /\ rXform = NoXform
    /\ rPayload = NoPayload
    /\ nodes = <<>>
    /\ ExportIdle

\* nothing is computed unless source and target are both resolved
RemapSkip ==
    /\ rStage = "idle"
    /\ ~(rSource.ready /\ rTarget.ready)
    /\ rStage' = "done"
    /\ UNCHANGED <<rSource, rTarget, rXform, rPayload>>
    /\ UNCHANGED exportVars

RemapResolve ==
    /\ rStage = "idle"
    /\ rSource.ready /\ rTarget.ready
    /\ rXform' = ResolveTransform(rSource.originalBounds, rTarget.bounds,
                                  rSource.aiStrategy)
    /\ rStage' = "resolved"
    /\ UNCHANGED <<rSource, rTarget, rPayload>>
    /\ UNCHANGED exportVars

RemapTransform ==
    /\ rStage = "resolved"
    /\ rPayload' = BuildPayload(rSource, rTarget, rXform)
    /\ rStage' = "done"
    /\ UNCHANGED <<rSource, rTarget, rXform>>
    /\ UNCHANGED exportVars

RemapNext == RemapSkip \/ RemapResolve \/ RemapTransform

SpecRemap == RemapInit /\ [][RemapNext]_vars

(***************************************************************************)
(* The graph, the remapper's registration and the export node.  The wiring *)
(* is edited and payloads are registered until the first export starts.    *)
(***************************************************************************)
Init ==
    /\ rSource = SourceNotReady
    /\ rTarget = TargetNotReady
    /\ rStage = "idle"
    /\ rXform = NoXform
    /\ rPayload = NoPayload
    /\ nodes \in NodeLists
    /\ ExportIdle

RemoveAt(seq, i) == SubSeq(seq, 1, i - 1) \o SubSeq(seq, i + 1, Len(seq))

\* the user draws an edge
Connect(e) ==
    /\ exportsStarted = 0
    /\ Len(edges) < MaxEdges
    /\ \A i \in 1..Len(edges) : edges[i] # e
    /\ edges' = Append(edges, e)
    /\ UNCHANGED <<nodes, payloadRegistry, isExporting, exportError, exportPc, newPsd,
                   written, exportsStarted>>
    /\ UNCHANGED remapVars

\* the user deletes an edge
Disconnect(i) ==
    /\ exportsStarted = 0
    /\ edges' = RemoveAt(edges, i)
    /\ UNCHANGED <<nodes, payloadRegistry, isExporting, exportError, exportPc, newPsd,
                   written, exportsStarted>>
    /\ UNCHANGED remapVars

\* registerPayload(id, handle, payload)
RegisterPayload(registry, handle, payload) == [registry EXCEPT ![handle] = payload]

\* the remapper renders instance i, with some edges into its handles, and
\* registers the payload, if there is one
RemapperSync(i, payload) ==
    /\ exportsStarted = 0
    /\ payloadRegistry' =
          IF payload.present
          THEN RegisterPayload(payloadRegistry, ResultOut(i), payload)
          ELSE payloadRegistry
    /\ UNCHANGED <<nodes, edges, isExporting, exportError, exportPc, newPsd, written,
                   exportsStarted>>
    /\ UNCHANGED remapVars

\* handleExport returns at once
ExportIgnored ==
    /\ exportPc = "idle"
    /\ ~(IsTemplateReady(edges) /\ IsFullyAssembled(edges, payloadRegistry))
    /\ UNCHANGED vars

\* ExportBegin without setExportError(null)
ExportBeginKeepsError ==
    /\ exportPc = "idle"
    /\ exportsStarted < MaxExports
    /\ IsTemplateReady(edges) /\ IsFullyAssembled(edges, payloadRegistry)
    /\ isExporting' = TRUE
    /\ exportPc' = "started"
    /\ exportsStarted' = exportsStarted + 1
    /\ UNCHANGED <<nodes, edges, payloadRegistry, exportError, newPsd, written>>
    /\ UNCHANGED remapVars

\* handleExport: setIsExporting(true); setExportError(null)
ExportBegin ==
    /\ exportPc = "idle"
    /\ exportsStarted < MaxExports
    /\ IsTemplateReady(edges) /\ IsFullyAssembled(edges, payloadRegistry)
    /\ isExporting' = TRUE
    /\ exportError' = <<>>
    /\ exportPc' = "started"
    /\ exportsStarted' = exportsStarted + 1
    /\ UNCHANGED <<nodes, edges, payloadRegistry, newPsd, written>>
    /\ UNCHANGED remapVars

\* the document is built and handed to writePsdFile
ExportBuild ==
    /\ exportPc = "started"
    /\ MissingSources(Containers(edges), SlotConnections(edges, payloadRegistry)) = {}
    /\ newPsd' = <<BuildPsd(TemplateMetadata(edges)[1],
                            SlotConnections(edges, payloadRegistry))>>
    /\ exportPc' = "writing"
    /\ UNCHANGED <<nodes, edges, payloadRegistry, isExporting, exportError, written,
                   exportsStarted>>
    /\ UNCHANGED remapVars

\* ExportBuildThrows with a catch that logs the error and does not report it
ExportBuildThrowsUnreported ==
    /\ exportPc = "started"
    /\ MissingSources(Containers(edges), SlotConnections(edges, payloadRegistry)) # {}
    /\ isExporting' = FALSE
    /\ exportPc' = "idle"
    /\ UNCHANGED <<nodes, edges, payloadRegistry, exportError, newPsd, written,
                   exportsStarted>>
    /\ UNCHANGED remapVars

\* a payload's document is missing: throw, catch, finally
ExportBuildThrows ==
    /\ exportPc = "started"
    /\ LET missing == MissingSources(Containers(edges),
                                     SlotConnections(edges, payloadRegistry))
           first == CHOOSE i \in missing : \A j \in missing : i <= j
           payload == SlotConnections(edges, payloadRegistry)[Containers(edges)[first].name]
       IN /\ missing # {}
          /\ exportError' = <<[error |-> "Binary PSD data missing",
                               sourceNodeId |-> payload.sourceNodeId]>>
    /\ isExporting' = FALSE
    /\ exportPc' = "idle"
    /\ UNCHANGED <<nodes, edges, payloadRegistry, newPsd, written, exportsStarted>>
    /\ UNCHANGED remapVars

\* writePsdFile resolves
ExportWritten ==
    /\ exportPc = "writing"
    /\ written' = Append(written, newPsd[1])
    /\ newPsd' = <<>>
    /\ isExporting' = FALSE
    /\ exportPc' = "idle"
    /\ UNCHANGED <<nodes, edges, payloadRegistry, exportError, exportsStarted>>
    /\ UNCHANGED remapVars

\* writePsdFile rejects: catch, finally
ExportWriteFails ==
    /\ exportPc = "writing"
    /\ exportError' = <<[error |-> "write failed", sourceNodeId |-> ""]>>
    /\ newPsd' = <<>>
    /\ isExporting' = FALSE
    /\ exportPc' = "idle"
    /\ UNCHANGED <<nodes, edges, payloadRegistry, written, exportsStarted>>
    /\ UNCHANGED remapVars

Next ==
    \/ \E e \in ExportEdges : Connect(e)
    \/ \E i \in 1..Len(edges) : Disconnect(i)
    \/ \E i \in 0..(InstanceCount - 1) :
          \E payload \in InstanceOutcomes[i, nodes] : RemapperSync(i, payload)
    \/ ExportIgnored
    \/ ExportBegin
    \/ ExportBuild
    \/ ExportBuildThrows
    \/ ExportWritten
    \/ ExportWriteFails

Spec == Init /\ [][Next]_vars

(***************************************************************************)
(* Reading layer trees by position.                                        *)
(***************************************************************************)
\* the positions (sequences of child indices) of all layers of a forest
RECURSIVE Paths(_)
Paths(layers) ==
    UNION {{<<i>>} \cup {<<i>> \o p : p \in Paths(layers[i].children)} :
             i \in 1..Len(layers)}

\* the layer at position p
RECURSIVE At(_, _)
At(layers, p) ==
    IF Len(p) = 1 THEN layers[p[1]] ELSE At(layers[p[1]].children, Tail(p))

IsProperPrefix(e, d) == Len(e) < Len(d) /\ SubSeq(d, 1, Len(e)) = e

\* identifiers, kinds and child order of a forest
RECURSIVE Shape(_)
Shape(layers) ==
    [i \in 1..Len(layers) |->
        [id |-> layers[i].id, type |-> layers[i].type,
         children |-> Shape(layers[i].children)]]

AllFinite(layer) ==
    /\ IsFinite(layer.coords.x) /\ IsFinite(layer.coords.y)
    /\ IsFinite(layer.coords.w) /\ IsFinite(layer.coords.h)
    /\ IsFinite(layer.transform.scaleX) /\ IsFinite(layer.transform.scaleY)
    /\ IsFinite(layer.transform.offsetX) /\ IsFinite(layer.transform.offsetY)

RemapDone == rStage = "done" /\ rPayload.present

SourcePositive ==
    Lt(Int2Num(0), rSource.originalBounds.w) /\ Lt(Int2Num(0), rSource.originalBounds.h)

RemapCtx == Context(rSource.originalBounds, rTarget.bounds, rXform, rSource.aiStrategy)

HasOverride(layer) == FindOverride(rSource.aiStrategy, layer.id) # <<>>

\* where the override of an overridden layer aims, before clamping
OverrideAim(layer) ==
    LET o == FindOverride(rSource.aiStrategy, layer.id)[1]
    IN [x |-> Add(rTarget.bounds.x, o.xOffset), y |-> Add(rTarget.bounds.y, o.yOffset)]

\* the displacement an overridden layer's override induces
InducedDelta(layer) ==
    [x |-> Sub(OverrideAim(layer).x, GeomX(layer, RemapCtx)),
     y |-> Sub(OverrideAim(layer).y, GeomY(layer, RemapCtx))]

BleedMinY == Sub(rTarget.bounds.y, Mul(rTarget.bounds.h, MAX_BOUNDARY_VIOLATION_PERCENT))

BleedMaxY ==
    Add(rTarget.bounds.y,
        Mul(rTarget.bounds.h, Add(Int2Num(1), MAX_BOUNDARY_VIOLATION_PERCENT)))

\* y brought into the bleed range
IntoBleed(y) ==
    IF Lt(y, BleedMinY) THEN BleedMinY ELSE IF Lt(BleedMaxY, y) THEN BleedMaxY ELSE y

(***************************************************************************)
(* Reading the wiring of the export node.                                  *)
(***************************************************************************)
\* the edges into the 'input-<slot>' handles that resolve to a payload
PayloadWirings ==
    {i \in 1..Len(edges) :
        /\ edges[i].target = ExportId
        /\ Len(edges[i].targetHandle) = 2
        /\ edges[i].targetHandle[1] = "input-"
        /\ edges[i].source = RemapId
        /\ edges[i].sourceHandle \in DOMAIN payloadRegistry
        /\ payloadRegistry[edges[i].sourceHandle].present}

WiredSlot(i) == <<edges[i].targetHandle[2]>>

WiredPayload(i) == payloadRegistry[edges[i].sourceHandle]

\* the wirings whose payload declares the slot it is wired to, and the others
MatchedWirings == {i \in PayloadWirings : WiredPayload(i).targetContainer = WiredSlot(i)}

MismatchedWirings == PayloadWirings \ MatchedWirings

MatchedSlots == {WiredSlot(i) : i \in MatchedWirings}

\* the k-th mismatched wiring, in the order of the edges
KthMismatched(k) ==
    CHOOSE i \in MismatchedWirings :
        Cardinality({j \in MismatchedWirings : j <= i}) = k

\* the template of the first edge into 'template-input', if the registry has it
TemplateResolved ==
    \E i \in 1..Len(edges) :
        /\ edges[i].target = ExportId /\ edges[i].targetHandle = <<"template-input">>
        /\ \A j \in 1..(i - 1) :
              ~(edges[j].target = ExportId /\ edges[j].targetHandle = <<"template-input">>)
        /\ templateRegistry(edges[i].source) # <<>>

TemplateSlotNames == {Containers(edges)[i].name : i \in 1..Len(Containers(edges))}

\* the template's slots are all matched but one, whose only wiring is a
\* mismatched one, and nothing else is wired
AllButOneMatched ==
    /\ TemplateResolved
    /\ \A i \in PayloadWirings : WiredSlot(i) \in TemplateSlotNames
    /\ Cardinality(MismatchedWirings) = 1
    /\ \A i \in MismatchedWirings :
          MatchedSlots = TemplateSlotNames \ {WiredSlot(i)}

(***************************************************************************)
(* C1.  Each wiring whose payload declares another slot than the one it is *)
(* wired to adds exactly one violation message (slot, declared             *)
(* destination) and is not counted as a filled slot: the violations are    *)
(* those of the mismatched wirings in edge order, and the filled slots are *)
(* the slots of the matched wirings.  With N slots, N-1 of them matched    *)
(* and one wired to a mismatching payload: filledSlots = N-1, one          *)
(* violation, isFullyAssembled false.                                      *)
(***************************************************************************)
C1_MismatchRecordedNotCounted ==
    LET errors == ValidationErrors(edges, payloadRegistry)
    IN /\ Len(errors) = Cardinality(MismatchedWirings)
       /\ \A k \in 1..Len(errors) :
             errors[k] = ViolationMessage(WiredPayload(KthMismatched(k)).targetContainer,
                                          WiredSlot(KthMismatched(k)))
       /\ DOMAIN SlotConnections(edges, payloadRegistry) = MatchedSlots
       /\ FilledSlots(edges, payloadRegistry) = Cardinality(MatchedSlots)
       /\ AllButOneMatched =>
             /\ FilledSlots(edges, payloadRegistry) = TotalSlots(edges) - 1
             /\ Len(errors) = 1
             /\ ~IsFullyAssembled(edges, payloadRegistry)

\* two slots, one matched, the other wired to a payload meant for elsewhere
C1_Witness ==
    /\ AllButOneMatched
    /\ TotalSlots(edges) = 2
    /\ FilledSlots(edges, payloadRegistry) = 1
    /\ Len(ValidationErrors(edges, payloadRegistry)) = 1

(***************************************************************************)
(* C2.  Whenever isFullyAssembled is true, every slot of the template has  *)
(* exactly one payload wired to it and that payload declares the slot's    *)
(* name; no slot of the template is unfilled.                              *)
(***************************************************************************)
C2_AssembledMeansEverySlotFilledOnce ==
    IsFullyAssembled(edges, payloadRegistry) =>
        \A c \in 1..Len(Containers(edges)) :
            /\ Cardinality({i \in PayloadWirings :
                              WiredSlot(i) = Containers(edges)[c].name}) = 1
            /\ Containers(edges)[c].name \in MatchedSlots

\* the part of C2 about unfilled slots alone
C2_AssembledMeansNoSlotUnfilled ==
    IsFullyAssembled(edges, payloadRegistry) => TemplateSlotNames \subseteq MatchedSlots

(***************************************************************************)
(* C3.  isFullyAssembled is true if and only if a template is resolved,    *)
(* the number of slots with a correctly matched wiring equals the          *)
(* template's slot count, the slot count is positive and there is no       *)
(* violation.  handleExport starts an export in no other state.            *)
(***************************************************************************)
C3_AssembledIffFourConditions ==
    /\ IsFullyAssembled(edges, payloadRegistry) <=>
          /\ TemplateResolved
          /\ Cardinality(MatchedSlots) = Len(Containers(edges))
          /\ Len(Containers(edges)) > 0
          /\ MismatchedWirings = {}
    /\ exportPc # "idle" => IsFullyAssembled(edges, payloadRegistry)

\* handleExport has started an export of a two-slot assembly
C3_Witness ==
    /\ exportPc = "started"
    /\ IsFullyAssembled(edges, payloadRegistry)
    /\ Len(Containers(edges)) = 2 /\ Cardinality(MatchedSlots) = 2

(***************************************************************************)
(* C4.  A source rect with a zero (or negative) width or height is         *)
(* rejected before any transform math: no payload is produced that carries *)
(* an infinite or NaN scale or coordinate.                                 *)
(***************************************************************************)
C4_NoNonFinitePayload ==
    (RemapDone /\ ~SourcePositive) =>
        /\ IsFinite(rPayload.scaleFactor)
        /\ \A p \in Paths(rPayload.layers) : AllFinite(At(rPayload.layers, p))

(***************************************************************************)
(* C5.  A transformed layer whose id the original document does not hold   *)
(* aborts the build; it is never skipped.  So every document that was      *)
(* built holds, in the group of each slot, one reconstructed layer for     *)
(* every transformed layer of the slot's payload, at every depth.          *)
(***************************************************************************)
\* the number of layers of a forest
RECURSIVE CountLayers(_)
CountLayers(layers) ==
    IF layers = <<>> THEN 0
    ELSE 1 + CountLayers(Head(layers).children) + CountLayers(Tail(layers))

\* the payloads the build used, in template order
BuiltPayloads ==
    LET slotConnections == SlotConnections(edges, payloadRegistry)
        IsFilled(c) == c.name \in DOMAIN slotConnections
        filled == SelectSeq(Containers(edges), IsFilled)
    IN [g \in 1..Len(filled) |-> slotConnections[filled[g].name]]

C5_EveryTransformedLayerReconstructed ==
    \A k \in 1..Len(written \o newPsd) :
        LET document == (written \o newPsd)[k]
        IN /\ Len(document.children) = Len(BuiltPayloads)
           /\ \A g \in 1..Len(document.children) :
                 CountLayers(document.children[g].children)
                     = CountLayers(BuiltPayloads[g].layers)

(***************************************************************************)
(* C6.  For every input, every transformed layer at every depth has a      *)
(* final Y within [targetRect.y - h*p, targetRect.y + h*(1+p)], p the      *)
(* bleed percent.                                                          *)
(***************************************************************************)
C6_FinalYWithinBleed ==
    RemapDone =>
        \A p \in Paths(rPayload.layers) :
            /\ Le(BleedMinY, At(rPayload.layers, p).coords.y)
            /\ Le(At(rPayload.layers, p).coords.y, BleedMaxY)

\* the same bound, for source rects of positive width and height only
C6_WithinBleedIfSourcePositive == SourcePositive => C6_FinalYWithinBleed

(***************************************************************************)
(* C7 as claimed.  If layer E has an override and a descendant D of E has  *)
(* none, D's final position (x and y) is D's geometric position plus the   *)
(* delta E's override induces.  (Stated for source rects of positive       *)
(* width and height.)                                                      *)
(***************************************************************************)
C7_DescendantFollowsAnyAncestor ==
    (RemapDone /\ SourcePositive) =>
        \A e \in Paths(rSource.layers), d \in Paths(rSource.layers) :
            LET E == At(rSource.layers, e)
                D == At(rSource.layers, d)
                out == At(rPayload.layers, d)
            IN (IsProperPrefix(e, d) /\ HasOverride(E) /\ ~HasOverride(D)) =>
                  /\ out.coords.x = Add(GeomX(D, RemapCtx), InducedDelta(E).x)
                  /\ out.coords.y = Add(GeomY(D, RemapCtx), InducedDelta(E).y)

\* the nearest overridden proper ancestor of position d: <<>> or <<e>>
NearestOverridden(d) ==
    LET anc == {e \in Paths(rSource.layers) :
                  IsProperPrefix(e, d) /\ HasOverride(At(rSource.layers, e))}
    IN IF anc = {} THEN <<>>
       ELSE <<CHOOSE e \in anc : \A f \in anc : Len(f) <= Len(e)>>

InheritedDelta(d) ==
    IF NearestOverridden(d) = <<>> THEN [x |-> Int2Num(0), y |-> Int2Num(0)]
    ELSE InducedDelta(At(rSource.layers, NearestOverridden(d)[1]))

(***************************************************************************)
(* C7 amended.  A layer D without an override has final x = geomX(D) + dx  *)
(* and final y = geomY(D) + dy brought into the bleed range, where         *)
(* (dx, dy) is the delta induced by D's nearest overridden ancestor (that  *)
(* ancestor's override target, before clamping, minus its geometric        *)
(* position), or zero when no ancestor is overridden.                      *)
(***************************************************************************)
C7_DescendantFollowsNearestClamped ==
    RemapDone =>
        \A d \in Paths(rSource.layers) :
            LET D == At(rSource.layers, d)
                out == At(rPayload.layers, d)
            IN ~HasOverride(D) =>
                  /\ out.coords.x = Add(GeomX(D, RemapCtx), InheritedDelta(d).x)
                  /\ out.coords.y = IntoBleed(Add(GeomY(D, RemapCtx), InheritedDelta(d).y))

\* a layer without override two levels below an overridden root, moved by a
\* non-zero delta
C7_Witness ==
    /\ RemapDone
    /\ \E d \in Paths(rSource.layers) :
          /\ Len(d) = 3
          /\ ~HasOverride(At(rSource.layers, d))
          /\ NearestOverridden(d) # <<>>
          /\ Len(NearestOverridden(d)[1]) = 1
          /\ InheritedDelta(d).x # Int2Num(0)
          /\ IsFinite(At(rPayload.layers, d).coords.x)

(***************************************************************************)
(* C8.  The transformed tree has the identifiers, kinds, number of         *)
(* children at every node and child order of the input tree.               *)
(***************************************************************************)
C8_ShapePreserved == RemapDone => Shape(rPayload.layers) = Shape(rSource.layers)

\* a transformed tree three levels deep with sibling layers and an override
C8_Witness ==
    /\ RemapDone
    /\ \E p \in Paths(rPayload.layers) : Len(p) = 3
    /\ Len(rPayload.layers[1].children) = 2
    /\ HasOverride(rSource.layers[1])

(***************************************************************************)
(* C9.  With no strategy and a source rect of positive width and height,   *)
(* scale = min(tw/sw, th/sh) and the scaled source rect is centred in the  *)
(* target rect on both axes: anchorX = tx + (tw - sw*scale)/2,             *)
(* anchorY = ty + (th - sh*scale)/2.                                       *)
(***************************************************************************)
C9_DefaultFitCentred ==
    (rStage # "idle" /\ rSource.ready /\ rTarget.ready
        /\ ~rSource.aiStrategy.present /\ SourcePositive) =>
        LET s == rSource.originalBounds
            t == rTarget.bounds
            scaledW == Mul(s.w, rXform.scale)
            scaledH == Mul(s.h, rXform.scale)
        IN \* the largest uniform scale that fits both axes
           /\ Le(scaledW, t.w) /\ Le(scaledH, t.h)
           /\ scaledW = t.w \/ scaledH = t.h
           \* equal margins on both sides
           /\ Sub(rXform.anchorX, t.x) = Sub(Add(t.x, t.w), Add(rXform.anchorX, scaledW))
           /\ Sub(rXform.anchorY, t.y) = Sub(Add(t.y, t.h), Add(rXform.anchorY, scaledH))
           /\ rXform.anchorX = Add(t.x, Div(Sub(t.w, scaledW), Two))
           /\ rXform.anchorY = Add(t.y, Div(Sub(t.h, scaledH), Two))
           /\ rStage = "done" => rPayload.scaleFactor = rXform.scale

\* source 100x200 into target 50x50 at (10,10): scale 1/4, anchor (22.5, 10)
C9_Witness ==
    /\ rStage = "resolved"
    /\ ~rSource.aiStrategy.present
    /\ rSource.originalBounds = Rect(0, 0, 100, 200)
    /\ rTarget.bounds = Rect(10, 10, 50, 50)
    /\ rXform.scale = Num(1, 4)
    /\ rXform.anchorX = Num(45, 2)
    /\ rXform.anchorY = Int2Num(10)

(***************************************************************************)
(* C10.  With a strategy, scale = strategy.suggestedScale, the horizontal  *)
(* anchor is tx + (tw - sw*scale)/2, and the vertical anchor is ty for     *)
(* TOP, ty + th - sh*scale for BOTTOM and vertically centred for CENTER    *)
(* and every other value (STRETCH).                                        *)
(***************************************************************************)
C10_StrategyScaleAndAnchor ==
    (rStage # "idle" /\ rSource.ready /\ rTarget.ready /\ rSource.aiStrategy.present) =>
        LET s == rSource.originalBounds
            t == rTarget.bounds
            st == rSource.aiStrategy
            scaledW == Mul(s.w, st.suggestedScale)
            scaledH == Mul(s.h, st.suggestedScale)
        IN /\ rXform.scale = st.suggestedScale
           /\ rXform.anchorX = Add(t.x, Div(Sub(t.w, scaledW), Two))
           /\ st.anchor = "TOP" => rXform.anchorY = t.y
           /\ st.anchor = "BOTTOM" => rXform.anchorY = Sub(Add(t.y, t.h), scaledH)
           /\ st.anchor \notin {"TOP", "BOTTOM"} =>
                 rXform.anchorY = Add(t.y, Div(Sub(t.h, scaledH), Two))
           /\ rStage = "done" => rPayload.scaleFactor = st.suggestedScale

\* a STRETCH strategy of scale 2 resolved away from the top of the target
C10_Witness ==
    /\ rStage = "resolved"
    /\ rSource.aiStrategy.present
    /\ rSource.aiStrategy.anchor = "STRETCH"
    /\ rSource.aiStrategy.suggestedScale = Int2Num(2)
    /\ rSource.originalBounds = Rect(0, 0, 100, 200)
    /\ rTarget.bounds = Rect(10, 10, 50, 50)
    /\ rXform.anchorY = Int2Num(-165)
    /\ rXform.anchorX = Int2Num(-65)

(***************************************************************************)
(* C11.  A layer with an override is placed absolutely: its final x is     *)
(* targetRect.x + xOffset, unclamped and whatever delta it inherited; its  *)
(* final y is targetRect.y + yOffset brought into the bleed range; its     *)
(* size is its own width and height times the base scale times the         *)
(* override's individualScale.  Source {0,0,100,200}, target               *)
(* {10,10,50,50}, scale 1/4, override (5, 5, 2) on the root: position      *)
(* (15, 15), size 50 x 100.                                                *)
(***************************************************************************)
OverrideScenario ==
    /\ rSource.originalBounds = Rect(0, 0, 100, 200)
    /\ rTarget.bounds = Rect(10, 10, 50, 50)
    /\ rSource.aiStrategy.present /\ rSource.aiStrategy.hasOverrides
    /\ rSource.aiStrategy.suggestedScale = Num(1, 4)
    /\ rSource.aiStrategy.overrides # <<>>
    /\ rSource.aiStrategy.overrides[1] = OvRootA
    /\ rSource.layers # <<>>
    /\ rSource.layers[1].id = <<0>>
    /\ rSource.layers[1].coords = Rect(0, 0, 100, 200)

C11_OverridePlacesAbsolutely ==
    RemapDone =>
        /\ \A p \in Paths(rSource.layers) :
              LET layer == At(rSource.layers, p)
                  placed == At(rPayload.layers, p)
                  individualScale ==
                      FindOverride(rSource.aiStrategy, layer.id)[1].individualScale
              IN HasOverride(layer) =>
                    /\ placed.coords.x = OverrideAim(layer).x
                    /\ placed.coords.y = IntoBleed(OverrideAim(layer).y)
                    /\ placed.coords.w =
                          Mul(Mul(layer.coords.w, rPayload.scaleFactor), individualScale)
                    /\ placed.coords.h =
                          Mul(Mul(layer.coords.h, rPayload.scaleFactor), individualScale)
        /\ OverrideScenario =>
              rPayload.layers[1].coords =
                  [x |-> Int2Num(15), y |-> Int2Num(15), w |-> Int2Num(50),
                   h |-> Int2Num(100)]

\* the scenario, and an overridden layer below an overridden layer
C11_Witness ==
    /\ RemapDone
    /\ OverrideScenario
    /\ rPayload.layers[1].coords.x = Int2Num(15)
    /\ rPayload.layers[1].coords.w = Int2Num(50)
    /\ \E p \in Paths(rSource.layers) : Len(p) = 2 /\ HasOverride(At(rSource.layers, p))

(***************************************************************************)
(* C12.  With no strategy every layer, at any depth, is placed purely      *)
(* geometrically: x = anchorX + (layer.x - sourceRect.x) * scale,          *)
(* y = anchorY + (layer.y - sourceRect.y) * scale brought into the bleed   *)
(* range, w = layer.w * scale, h = layer.h * scale.  Source {0,0,100,200}  *)
(* into target {10,10,50,50}: scale 1/4, anchor (22.5, 10), and a layer    *)
(* {0,0,100,200} maps to {22.5, 10, 25, 50}.                               *)
(***************************************************************************)
GeometricScenario ==
    /\ rSource.originalBounds = Rect(0, 0, 100, 200)
    /\ rTarget.bounds = Rect(10, 10, 50, 50)
    /\ ~rSource.aiStrategy.present
    /\ rSource.layers # <<>>
    /\ rSource.layers[1].coords = Rect(0, 0, 100, 200)

C12_NoStrategyPureGeometry ==
    (RemapDone /\ ~rSource.aiStrategy.present) =>
        /\ \A p \in Paths(rSource.layers) :
              LET layer == At(rSource.layers, p)
                  placed == At(rPayload.layers, p)
                  s == rSource.originalBounds
              IN /\ placed.coords.x =
                        Add(rXform.anchorX, Mul(Sub(layer.coords.x, s.x), rXform.scale))
                 /\ placed.coords.y =
                        IntoBleed(Add(rXform.anchorY,
                                      Mul(Sub(layer.coords.y, s.y), rXform.scale)))
                 /\ placed.coords.w = Mul(layer.coords.w, rXform.scale)
                 /\ placed.coords.h = Mul(layer.coords.h, rXform.scale)
        /\ GeometricScenario =>
              /\ rXform.scale = Num(1, 4)
              /\ rXform.anchorX = Num(45, 2) /\ rXform.anchorY = Int2Num(10)
              /\ rPayload.layers[1].coords =
                    [x |-> Num(45, 2), y |-> Int2Num(10), w |-> Int2Num(25),
                     h |-> Int2Num(50)]

\* the same placement, for source rects of positive width and height only
C12_PureGeometryIfSourcePositive == SourcePositive => C12_NoStrategyPureGeometry

(***************************************************************************)
(* C13.  The top-level children of a built document are one group per      *)
(* template slot with an accepted payload, in template slot order whatever *)
(* the order of the edges; each group has the slot's originalName, the     *)
(* slot's bounds (top = y, left = x, bottom = y + h, right = x + w), is    *)
(* opened and holds the slot's reconstructed content.                      *)
(***************************************************************************)
\* the payload accepted for a slot: that of the last matched wiring into it
AcceptedPayload(slotName) ==
    LET wirings == {i \in MatchedWirings : WiredSlot(i) = slotName}
    IN WiredPayload(CHOOSE i \in wirings : \A j \in wirings : j <= i)

\* the template's slots that have an accepted payload, in template order
AcceptedSlots ==
    LET HasAccepted(c) == c.name \in MatchedSlots
    IN SelectSeq(Containers(edges), HasAccepted)

BuiltDocuments == written \o newPsd

C13_OneGroupPerSlotInTemplateOrder ==
    \A k \in 1..Len(BuiltDocuments) :
        LET groups == BuiltDocuments[k].children
        IN /\ Len(groups) = Len(AcceptedSlots)
           /\ \A g \in 1..Len(groups) :
                 LET slot == AcceptedSlots[g]
                     payload == AcceptedPayload(slot.name)
                 IN /\ groups[g].name = slot.originalName
                    /\ groups[g].top = slot.bounds.y
                    /\ groups[g].left = slot.bounds.x
                    /\ groups[g].bottom = Add(slot.bounds.y, slot.bounds.h)
                    /\ groups[g].right = Add(slot.bounds.x, slot.bounds.w)
                    /\ groups[g].opened
                    /\ groups[g].children =
                          reconstructHierarchy(payload.layers,
                                               psdRegistry(payload.sourceNodeId)[1])

\* a written document with the groups of A and B in this order, B wired first
C13_Witness ==
    /\ written # <<>>
    /\ Len(written[1].children) = 2
    /\ written[1].children[1].name = <<"A">>
    /\ written[1].children[2].name = <<"B">>
    /\ \E i \in MatchedWirings : \E j \in MatchedWirings :
          i < j /\ WiredSlot(i) = <<"B">> /\ WiredSlot(j) = <<"A">>

(***************************************************************************)
(* C14.  If the document of some slot's payload is missing from            *)
(* psdRegistry, the export aborts as a whole: nothing is handed to         *)
(* writePsdFile and no file is written for that export, also when the      *)
(* slots before it were reconstructed, and exportError is set.             *)
(***************************************************************************)
\* the accepted slots whose payload names a document psdRegistry lacks
SlotsWithoutDocument ==
    {g \in 1..Len(AcceptedSlots) :
        psdRegistry(AcceptedPayload(AcceptedSlots[g].name).sourceNodeId) = <<>>}

C14_MissingDocumentAbortsExport ==
    [][(exportPc = "started" /\ SlotsWithoutDocument # {}) =>
          /\ exportPc' = "idle"
          /\ exportError' # <<>>
          /\ ~isExporting'
          /\ newPsd' = <<>>
          /\ written' = written]_vars

\* an export has aborted although the first slot's document was there
C14_Witness ==
    /\ exportsStarted > 0 /\ exportPc = "idle"
    /\ exportError # <<>>
    /\ written = <<>>
    /\ SlotsWithoutDocument = {2}

(***************************************************************************)
(* C15.  Every transformed layer records the transform applied to it:      *)
(* offsetX and offsetY are its final top-left position, after the clamp;   *)
(* scaleX and scaleY are the scale its width and height were computed      *)
(* with, the base scale, times individualScale for an overridden layer.    *)
(***************************************************************************)
C15_TransformRecordsWhatWasApplied ==
    RemapDone =>
        \A p \in Paths(rSource.layers) :
            LET layer == At(rSource.layers, p)
                placed == At(rPayload.layers, p)
                effective ==
                    IF HasOverride(layer)
                    THEN Mul(rPayload.scaleFactor,
                             FindOverride(rSource.aiStrategy, layer.id)[1].individualScale)
                    ELSE rPayload.scaleFactor
            IN /\ placed.transform.offsetX = placed.coords.x
               /\ placed.transform.offsetY = placed.coords.y
               /\ placed.transform.scaleX = effective
               /\ placed.transform.scaleY = effective
               /\ placed.coords.w = Mul(layer.coords.w, placed.transform.scaleX)
               /\ placed.coords.h = Mul(layer.coords.h, placed.transform.scaleY)

\* an overridden layer with a scale of its own that the clamp has moved
C15_Witness ==
    /\ RemapDone
    /\ \E p \in Paths(rSource.layers) :
          LET layer == At(rSource.layers, p)
              placed == At(rPayload.layers, p)
          IN /\ HasOverride(layer)
             /\ placed.coords.y # OverrideAim(layer).y
             /\ placed.transform.offsetY = BleedMaxY
             /\ placed.transform.scaleX # rPayload.scaleFactor

(***************************************************************************)
(* C16.  Reconstruction rebuilds the nesting: every transformed layer of   *)
(* kind group yields a layer that is opened, whatever the original's       *)
(* state, with the reconstruction of its transformed children, in order,   *)
(* as children; every other transformed layer yields a layer without       *)
(* children; bounds, hidden (not isVisible) and opacity (opacity * 255)    *)
(* come from the transformed layer, everything else from the original.     *)
(***************************************************************************)
\* what the claim says the transformed layers yield
RECURSIVE Rebuilt(_)
Rebuilt(transformedLayers) ==
    [i \in 1..Len(transformedLayers) |->
        LET t == transformedLayers[i]
            original == OriginalLayer(t.id)
        IN [name |-> original.name,
            blendMode |-> original.blendMode,
            top |-> t.coords.y,
            left |-> t.coords.x,
            bottom |-> Add(t.coords.y, t.coords.h),
            right |-> Add(t.coords.x, t.coords.w),
            hidden |-> ~t.isVisible,
            opacity |-> Mul(t.opacity, Int2Num(255)),
            hasChildren |-> t.type = "group",
            children |-> IF t.type = "group" THEN Rebuilt(t.children) ELSE <<>>,
            opened |-> IF t.type = "group" THEN TRUE ELSE original.opened]]

C16_GroupsRebuiltNested ==
    \A k \in 1..Len(BuiltDocuments) :
        \A g \in 1..Len(BuiltDocuments[k].children) :
            BuiltDocuments[k].children[g].children
                = Rebuilt(AcceptedPayload(AcceptedSlots[g].name).layers)

\* the same, for payloads whose layers are all in the document they name
AllOriginalsFound ==
    \A g \in 1..Len(AcceptedSlots) :
        LET payload == AcceptedPayload(AcceptedSlots[g].name)
        IN /\ psdRegistry(payload.sourceNodeId) # <<>>
           /\ LayerIds(payload.layers) \subseteq psdRegistry(payload.sourceNodeId)[1]

C16_RebuiltNestedIfOriginalsFound == AllOriginalsFound => C16_GroupsRebuiltNested

(***************************************************************************)
(* C17.  A payload the remapper computed against template slot S, by any   *)
(* of the matchers, and wired to the export node's handle of the same      *)
(* slot, 'input-' + S.name, is accepted by the validator: it fills S and   *)
(* adds no violation.  This for every template, also one whose slots have  *)
(* an originalName that differs from their name.                           *)
(***************************************************************************)
\* what instance i computes, with the slot it was computed against and the
\* document its layers were extracted from
SlotOutcomes ==
    [i \in 0..(InstanceCount - 1), nodeList \in NodeLists |->
        {[slot |-> MatchContainer(templateRegistry(t[1].source)[1], t[1].sourceHandle)[1],
          document |-> IF ResolveSource(s, nodeList).ready
                       THEN extractedFrom(s[1].source, s[1].sourceHandle) ELSE "",
          payload |-> InstancePayload(i, s \o t, nodeList)] :
            s \in RemapSourceEdges(i),
            t \in {e \in RemapTargetEdges(i) : ResolveTarget(e).ready}}]

\* the edges from instance i's output into the export node's handle of slot
WiringsIntoSlot(i, slot) ==
    {k \in 1..Len(edges) :
        /\ edges[k].source = RemapId /\ edges[k].sourceHandle = ResultOut(i)
        /\ edges[k].target = ExportId
        /\ edges[k].targetHandle = <<"input-">> \o slot.name}

\* the first k edges
EdgesUpTo(k) == SubSeq(edges, 1, k)

C17_ConsistentWiringAccepted ==
    \A i \in 0..(InstanceCount - 1) :
        \A outcome \in SlotOutcomes[i, nodes] :
            (outcome.payload.present /\ payloadRegistry[ResultOut(i)] = outcome.payload) =>
                \A k \in WiringsIntoSlot(i, outcome.slot) :
                    /\ k \in MatchedWirings
                    /\ outcome.slot.name \in DOMAIN SlotConnections(edges, payloadRegistry)
                    /\ Len(ValidationErrors(EdgesUpTo(k), payloadRegistry))
                          = Len(ValidationErrors(EdgesUpTo(k - 1), payloadRegistry))

\* the same, for slots whose originalName is their name
C17_AcceptedIfNamedAlike ==
    \A i \in 0..(InstanceCount - 1) :
        \A outcome \in SlotOutcomes[i, nodes] :
            (/\ outcome.payload.present /\ payloadRegistry[ResultOut(i)] = outcome.payload
             /\ outcome.slot.originalName = outcome.slot.name) =>
                WiringsIntoSlot(i, outcome.slot) \subseteq MatchedWirings

(***************************************************************************)
(* C18.  The sourceNodeId of every payload the remapper produces names the *)
(* document the payload's layers were extracted from, so the export looks  *)
(* the transformed layers up in the document they came from, whatever the  *)
(* number of loadPsd nodes of the graph.                                   *)
(***************************************************************************)
C18_SourceNodeIsLayersDocument ==
    \A i \in 0..(InstanceCount - 1) :
        \A outcome \in SlotOutcomes[i, nodes] :
            (outcome.payload.present /\ payloadRegistry[ResultOut(i)] = outcome.payload) =>
                /\ outcome.payload.sourceNodeId = outcome.document
                /\ psdRegistry(outcome.payload.sourceNodeId) # <<>>
                /\ LayerIds(outcome.payload.layers)
                      \subseteq psdRegistry(outcome.payload.sourceNodeId)[1]

\* the same, for a graph whose only loadPsd node holds the document
C18_SourceIsDocumentOfOnlyLoader ==
    (Cardinality({n \in 1..Len(nodes) : nodes[n].type = "loadPsd"}) = 1)
        => C18_SourceNodeIsLayersDocument

(***************************************************************************)
(* C19.  Override precedence is first match wins: of several entries of    *)
(* the overrides list with the same layerId only the first, in list order, *)
(* is applied (position, scale, induced delta), and the transformed tree   *)
(* is the one obtained with the later duplicates removed; an entry whose   *)
(* layerId matches no layer changes nothing.                               *)
(***************************************************************************)
\* the entries that are the first of their layerId and name a layer of the tree
EffectiveOverrides(overrides, layers) ==
    LET kept == {i \in 1..Len(overrides) :
                    /\ \A j \in 1..(i - 1) : overrides[j].layerId # overrides[i].layerId
                    /\ overrides[i].layerId \in LayerIds(layers)}
        Nth(n) == CHOOSE i \in kept : Cardinality({j \in kept : j <= i}) = n
    IN [n \in 1..Cardinality(kept) |-> overrides[Nth(n)]]

HasDuplicateOverride(overrides) ==
    \E i \in 1..Len(overrides) : \E j \in 1..(i - 1) :
        overrides[j].layerId = overrides[i].layerId

C19_FirstMatchingOverrideWins ==
    (RemapDone /\ rSource.aiStrategy.present) =>
        LET overrides == rSource.aiStrategy.overrides
            reduced == [rSource.aiStrategy EXCEPT
                           !.overrides = EffectiveOverrides(overrides, rSource.layers)]
        IN /\ rPayload.layers =
                 TransformLayers(rSource.layers,
                                 Context(rSource.originalBounds, rTarget.bounds, rXform,
                                         reduced),
                                 Int2Num(0), Int2Num(0))
           /\ \A p \in Paths(rSource.layers) :
                 \A i \in 1..Len(overrides) :
                     (/\ rSource.aiStrategy.hasOverrides
                      /\ overrides[i].layerId = At(rSource.layers, p).id
                      /\ \A j \in 1..(i - 1) : overrides[j].layerId # overrides[i].layerId) =>
                         /\ At(rPayload.layers, p).coords.x
                               = Add(rTarget.bounds.x, overrides[i].xOffset)
                         /\ At(rPayload.layers, p).transform.scaleX
                               = Mul(rXform.scale, overrides[i].individualScale)

\* two entries for the root, the first one applied; an entry for no layer
C19_Witness ==
    /\ RemapDone
    /\ rSource.aiStrategy.hasOverrides
    /\ HasDuplicateOverride(rSource.aiStrategy.overrides)
    /\ rSource.aiStrategy.overrides[1] = OvRootB
    /\ rSource.layers # <<>>
    /\ rPayload.layers[1].coords.x = Int2Num(-20)
    /\ rPayload.layers[1].transform.scaleX # Mul(rXform.scale, OvRootA.individualScale)

(***************************************************************************)
(* C20.  The life of an export.  With no template resolved or with         *)
(* isFullyAssembled false, handleExport changes no state and writes no     *)
(* file.  A started export first sets isExporting and clears exportError.  *)
(* It ends with isExporting false, whether the build and the write succeed *)
(* or throw, and then exportError is set exactly if one of them threw,     *)
(* that is, if no file was written.                                        *)
(***************************************************************************)
ExportMayStart == TemplateResolved /\ IsFullyAssembled(edges, payloadRegistry)

ExportStarts == exportPc = "idle" /\ exportPc' # "idle"

ExportEnds == exportPc # "idle" /\ exportPc' = "idle"

C20_ExportLifecycle ==
    [][/\ (exportPc = "idle" /\ ~ExportMayStart) =>
             /\ exportPc' = "idle"
             /\ isExporting' = isExporting /\ exportError' = exportError
             /\ newPsd' = newPsd /\ written' = written
       /\ ExportStarts =>
             /\ ExportMayStart
             /\ exportPc' = "started"
             /\ isExporting' /\ exportError' = <<>>
             /\ written' = written
       /\ (exportPc # "idle" /\ ~ExportEnds) => (isExporting' /\ exportError' = <<>>)
       /\ ExportEnds =>
             /\ ~isExporting'
             /\ \/ exportPc = "writing" /\ written' = Append(written, newPsd[1])
                \/ written' = written
             /\ exportError' # <<>> <=> written' = written]_vars

\* a second export has started after one that threw: the error is cleared
C20_Witness ==
    /\ exportsStarted = 2
    /\ exportPc = "started"
    /\ written = <<>>
    /\ isExporting /\ exportError = <<>>

====
